---- MODULE Spec2Model ----
(***************************************************************************)
(* Model of classifier.py: classify_ticket, its retry loop, the pydantic   *)
(* validation of the decoded model payload and the escalation rule.        *)
(*                                                                         *)
(* Time is counted in whole seconds.  A confidence is held in tenths       *)
(* (0.7 is 7), so that the comparison with 0.7 is exact.                   *)
(***************************************************************************)
EXTENDS Integers, Sequences, FiniteSets, TLC

VARIABLES API_KEY, active, pc, attempt, last_error, elapsed, measured, slept,
          returned, raised, nCalls, trace, cancel

vars == <<API_KEY, active, pc, attempt, last_error, elapsed, measured, slept,
          returned, raised, nCalls, trace, cancel>>

(***************************************************************************)
(* Program constants.                                                      *)
(***************************************************************************)
MAX_RETRIES == 3

TIMEOUT_SECONDS == 30

Urgency == {"critical", "high", "medium", "low"}

Intent == {"complaint", "question", "request", "feedback", "bug_report"}

(***************************************************************************)
(* Bounds of the model.                                                    *)
(***************************************************************************)
\* identifiers of the classify_ticket calls that may run
NumCalls == 2

\* an upstream call is observed for at most this many seconds
MaxWait == 31

\* an upstream response arrives within this many seconds, or not at all
MaxLatency == 1

\* the same two, when two calls run concurrently
ConcMaxWait == 1

ConcMaxLatency == 0

CallIds == 1..NumCalls

(***************************************************************************)
(* Python values, as json.loads produces them.  t is the Python type,      *)
(* s the text of a str, n the number of an int or a bool, or the tenths    *)
(* of a float.                                                             *)
(***************************************************************************)
StrV(s) == [t |-> "str", s |-> s, n |-> 0]

FloatV(tenths) == [t |-> "float", s |-> "", n |-> tenths]

IntV(n) == [t |-> "int", s |-> "", n |-> n]

BoolV(b) == [t |-> "bool", s |-> "", n |-> IF b THEN 1 ELSE 0]

NullV == [t |-> "null", s |-> "", n |-> 0]

\* the value of a number in tenths
Tenths(v) == IF v.t = "float" THEN v.n ELSE 10 * v.n

\* dict operations
EmptyDict == [k \in {} |-> NullV]

DictSet(d, key, v) == [k \in DOMAIN d \cup {key} |-> IF k = key THEN v ELSE d[k]]

DictDel(d, key) == [k \in DOMAIN d \ {key} |-> d[k]]

\* exceptions: the class name and the text str(e) gives
Exc(type, msg) == [type |-> type, msg |-> msg]

NoError == Exc("NoneType", "None")

\* str(last_error): the message, without the class
Str(e) == e.msg

\* classes below BaseException that are not below Exception
NonExceptionClasses == {"KeyboardInterrupt", "SystemExit", "GeneratorExit"}

(***************************************************************************)
(* TicketClassification: the pydantic model, validated in pydantic's       *)
(* default (lax) mode: a field is accepted when its value has the field's  *)
(* type or converts to it; keys that are no field are ignored; confidence  *)
(* carries no range constraint.                                            *)
(***************************************************************************)
FieldNames == <<"urgency", "intent", "product_area", "language",
                "confidence", "suggested_reply", "needs_human">>

Fields == {FieldNames[i] : i \in 1..Len(FieldNames)}

\* strings float() parses, with the value in tenths
NumericStrings == [s \in {"0.5"} |-> 5]

\* strings pydantic reads as a bool
BoolStrings == {"true", "false", "yes", "no", "on", "off", "1", "0", "t", "f", "y", "n"}

EnumOK(v, members) == v.t = "str" /\ v.s \in members

StrOK(v) == v.t = "str"

FloatOK(v) ==
    \/ v.t \in {"float", "int", "bool"}
    \/ v.t = "str" /\ v.s \in DOMAIN NumericStrings

BoolOK(v) ==
    \/ v.t = "bool"
    \/ v.t \in {"int", "float"} /\ Tenths(v) \in {0, 10}
    \/ v.t = "str" /\ v.s \in BoolStrings

FieldOK(f, v) ==
    CASE f = "urgency" -> EnumOK(v, Urgency)
      [] f = "intent" -> EnumOK(v, Intent)
      [] f = "confidence" -> FloatOK(v)
      [] f = "needs_human" -> BoolOK(v)
      [] OTHER -> StrOK(v)

\* the fields pydantic reports, in declaration order
FieldErrors(d) ==
    SelectSeq(FieldNames, LAMBDA f : f \notin DOMAIN d \/ ~FieldOK(f, d[f]))

RECURSIVE Join(_)
Join(names) ==
    IF names = <<>> THEN ""
    ELSE IF Len(names) = 1 THEN names[1]
    ELSE names[1] \o "," \o Join(Tail(names))

ValidationError(d) ==
    Exc("ValidationError",
        "validation errors for TicketClassification: " \o Join(FieldErrors(d)))

(***************************************************************************)
(* response.text and json.loads.  A text is None, a text that is not JSON, *)
(* or the JSON text of a value; the value is a dict or something else.     *)
(***************************************************************************)
PyDict(d) == [py |-> "dict", d |-> d]

PyList == [py |-> "list", d |-> EmptyDict]

NoneText == [kind |-> "none", value |-> PyList]

GarbageText == [kind |-> "garbage", value |-> PyList]

JsonText(value) == [kind |-> "json", value |-> value]

Ok(value) == [status |-> "ok", value |-> value, exc |-> NoError]

Raise(exc) == [status |-> "raise", value |-> EmptyDict, exc |-> exc]

JsonLoads(text) ==
    CASE text.kind = "none" ->
           Raise(Exc("TypeError", "the JSON object must be str, bytes or bytearray, not NoneType"))
      [] text.kind = "garbage" ->
           Raise(Exc("JSONDecodeError", "Expecting value: line 1 column 1 (char 0)"))
      [] OTHER -> Ok(text.value)

\* TicketClassification(**result)
Validate(value) ==
    IF value.py # "dict"
    THEN Raise(Exc("TypeError", "argument after ** must be a mapping, not " \o value.py))
    ELSE IF FieldErrors(value.d) # <<>>
    THEN Raise(ValidationError(value.d))
    ELSE Ok(value.d)

(***************************************************************************)
(* The body of one attempt after the upstream call returned (lines 82-93). *)
(***************************************************************************)
\* round(latency * 1000), latency in whole seconds
RoundMs(latency) == 1000 * latency

\* d.get(key, default)
DictGet(d, key, default) == IF key \in DOMAIN d THEN d[key] ELSE default

\* value < 0.7 raises TypeError unless value is a number
Orderable(v) == v.t \in {"float", "int", "bool"}

\* <= 0.7 in place of < 0.7
Below07_Inclusive(v) == Tenths(v) <= 7

\* value < 0.7
Below07(v) == Tenths(v) < 7

\* the rule without its confidence arm
EnforceRule_UrgencyOnly(result) ==
    IF DictGet(result, "urgency", NullV) = StrV("critical")
    THEN Ok(DictSet(result, "needs_human", BoolV(TRUE)))
    ELSE Ok(result)

\* the rule negating needs_human where it should set it
EnforceRule_Toggle(result) ==
    IF \/ DictGet(result, "urgency", NullV) = StrV("critical")
       \/ Below07(DictGet(result, "confidence", IntV(1)))
    THEN Ok(DictSet(result, "needs_human",
                    BoolV(DictGet(result, "needs_human", NullV) # BoolV(TRUE))))
    ELSE Ok(result)

\* the rule raising the urgency as well
EnforceRule_Escalates(result) ==
    IF \/ DictGet(result, "urgency", NullV) = StrV("critical")
       \/ Below07(DictGet(result, "confidence", IntV(1)))
    THEN Ok(DictSet(DictSet(result, "needs_human", BoolV(TRUE)), "urgency", StrV("critical")))
    ELSE Ok(result)

\* lines 90-93: the escalation rule on the decoded dict, then return
EnforceRule(result) ==
    IF DictGet(result, "urgency", NullV) = StrV("critical")
    THEN Ok(DictSet(result, "needs_human", BoolV(TRUE)))
    ELSE IF ~Orderable(DictGet(result, "confidence", IntV(1)))
    THEN Raise(Exc("TypeError", "'<' not supported between instances of 'str' and 'float'"))
    ELSE IF Below07(DictGet(result, "confidence", IntV(1)))
    THEN Ok(DictSet(result, "needs_human", BoolV(TRUE)))
    ELSE Ok(result)

AttemptBody(text, latency) ==
    LET loaded == JsonLoads(text) IN
    IF loaded.status = "raise" THEN loaded
    ELSE LET valid == Validate(loaded.value) IN
         IF valid.status = "raise" THEN valid
         ELSE EnforceRule(DictSet(valid.value, "latency_ms", IntV(RoundMs(latency))))

\* the second clause catching only the errors of the upstream library
ExceptClause_ApiErrorsOnly(e) ==
    IF e.type \in {"JSONDecodeError", "ValidationError"} THEN "schema"
    ELSE IF e.type \in {"ServerError", "ClientError"} THEN "api"
    ELSE "propagate"

\* which except clause of the loop takes an exception
ExceptClause(e) ==
    IF e.type \in {"JSONDecodeError", "ValidationError"} THEN "schema"
    ELSE IF e.type \notin NonExceptionClasses THEN "api"
    ELSE "propagate"

\* only the first error is kept
RecordError_KeepFirst(old, e) == IF old = NoError THEN e ELSE old

\* last_error = e, in both clauses
RecordError(old, e) == e

\* for attempt in range(1, MAX_RETRIES + 1)
AttemptRange == 1..MAX_RETRIES

\* range(1, MAX_RETRIES)
HasNext_RangeShort(a) == a + 1 \in 1..(MAX_RETRIES - 1)

HasNext(a) == a + 1 \in AttemptRange

\* the attempt counter as a module global, shared by the calls
NextAttempt_Shared(att, c) == [d \in DOMAIN att |-> att[c] + 1]

\* the attempt counter is a local of the call
NextAttempt(att, c) == [att EXCEPT ![c] = @ + 1]

\* the sleep without its guard
SleepsAfter_Always(a) == TRUE

\* if attempt < MAX_RETRIES: time.sleep(2 ** attempt)
SleepsAfter(a) == a < MAX_RETRIES

RECURSIVE Pow2(_)
Pow2(n) == IF n = 0 THEN 1 ELSE 2 * Pow2(n - 1)

\* 2 ** (attempt - 1): the attempts counted from 0
Backoff_FromZero(a) == Pow2(a - 1)

\* 2 ** attempt
Backoff(a) == Pow2(a)

\* start taken once, before the loop
StartClock_Once(m) == m

\* start = time.time(), at the top of every attempt: the measure restarts
StartClock(m) == 0

\* line 104
FailureOutcome(e) == [error |-> StrV(Str(e)), needs_human |-> BoolV(TRUE)]

\* if API_KEY is None
Falsy_NoneOnly(v) == v.t = "null"

\* if not API_KEY
Falsy(v) == v.t = "null" \/ (v.t = "str" /\ v.s = "")

(***************************************************************************)
(* What the upstream model may answer: the inputs of the model.            *)
(***************************************************************************)
Mk(u, conf, nh) ==
    [urgency |-> StrV(u), intent |-> StrV("question"),
     product_area |-> StrV("billing"), language |-> StrV("en"),
     confidence |-> conf, suggested_reply |-> StrV("reply"), needs_human |-> nh]

Base == Mk("low", FloatV(9), BoolV(FALSE))

\* payloads of the right shape, over urgency, confidence and needs_human
CorePayloads ==
    {Mk(u, conf, BoolV(b)) :
        u \in {"critical", "low"},
        conf \in {FloatV(-1), FloatV(5), FloatV(7), FloatV(11), StrV("0.5")},
        b \in BOOLEAN}

\* Base with a field missing, of the wrong type or outside its enumeration
DefectPayloads ==
    {DictSet(Base, "urgency", StrV("urgent")), DictDel(Base, "urgency"),
     DictSet(Base, "intent", StrV("spam")), DictDel(Base, "confidence"),
     DictSet(Base, "confidence", NullV), DictSet(Base, "needs_human", NullV),
     DictSet(Base, "product_area", NullV), DictDel(Base, "suggested_reply"),
     DictDel(DictSet(Base, "urgency", StrV("urgent")), "confidence")}

\* Base, and Base with a convertible value or a key that is no field
LaxPayloads ==
    {Base, DictSet(Base, "needs_human", StrV("false")),
     DictSet(Base, "confidence", IntV(1)), DictSet(Base, "notes", StrV("vip")),
     DictSet(Base, "latency_ms", IntV(7)), DictSet(Base, "error", StrV("none"))}

Payloads == CorePayloads \cup DefectPayloads \cup LaxPayloads

AllTexts ==
    {NoneText, GarbageText, JsonText(PyList)} \cup {JsonText(PyDict(d)) : d \in Payloads}

ConcTexts ==
    {GarbageText, JsonText(PyDict(Mk("low", FloatV(5), BoolV(FALSE))))}

AllUpstreamErrors ==
    {Exc("ServerError", "503 UNAVAILABLE"), Exc("ClientError", "429 RESOURCE_EXHAUSTED")}

ConcUpstreamErrors == {Exc("ServerError", "503 UNAVAILABLE")}

Concurrent == Cardinality(active) > 1

Texts == IF Concurrent THEN ConcTexts ELSE AllTexts

UpstreamErrors == IF Concurrent THEN ConcUpstreamErrors ELSE AllUpstreamErrors

WaitBound == IF Concurrent THEN ConcMaxWait ELSE MaxWait

LatencyBound == IF Concurrent THEN ConcMaxLatency ELSE MaxLatency

\* what the environment may hold under GOOGLE_API_KEY
Credentials == {NullV, StrV(""), StrV("key")}

(***************************************************************************)
(* State.                                                                  *)
(*   pc[c]         "idle", "calling" (generate_content in flight),         *)
(*                 "sleeping" (time.sleep), "returned" or "raised"         *)
(*   elapsed[c]    seconds the upstream call in flight has been running    *)
(*   measured[c]   time.time() - start, as the call would read it          *)
(*   slept[c]      the arguments of the time.sleep calls made, in order    *)
(*   nCalls[c]     the number of generate_content calls made               *)
(*   trace[c]      what the upstream did to each completed attempt         *)
(*   cancel[c]     whether the caller of c has asked for cancellation,     *)
(*                 which it may do during an upstream call or a sleep      *)
(***************************************************************************)
TypeOK ==
    /\ API_KEY \in Credentials
    /\ active \subseteq CallIds
    /\ pc \in [CallIds -> {"idle", "calling", "sleeping", "returned", "raised"}]
    /\ attempt \in [CallIds -> 0..MAX_RETRIES]
    /\ elapsed \in [CallIds -> 0..MaxWait]
    /\ measured = elapsed
    /\ nCalls \in [CallIds -> 0..MAX_RETRIES]
    /\ \A c \in CallIds : cancel[c].requested \in BOOLEAN

NoCancel == [requested |-> FALSE]

InitCalls ==
    /\ API_KEY \in Credentials
    /\ pc = [c \in CallIds |-> "idle"]
    /\ attempt = [c \in CallIds |-> 0]
    /\ last_error = [c \in CallIds |-> NoError]
    /\ elapsed = [c \in CallIds |-> 0]
    /\ measured = [c \in CallIds |-> 0]
    /\ slept = [c \in CallIds |-> <<>>]
    /\ returned = [c \in CallIds |-> EmptyDict]
    /\ raised = [c \in CallIds |-> NoError]
    /\ nCalls = [c \in CallIds |-> 0]
    /\ trace = [c \in CallIds |-> <<>>]
    /\ cancel = [c \in CallIds |-> NoCancel]

\* one call of classify_ticket
Init == active = {1} /\ InitCalls

\* every call runs, one thread each
InitConc == active = CallIds /\ InitCalls

\* lines 59-67, and the first generate_content call
Start(c) ==
    /\ c \in active
    /\ pc[c] = "idle"
    /\ IF Falsy(API_KEY)
       THEN /\ pc' = [pc EXCEPT ![c] = "raised"]
            /\ raised' = [raised EXCEPT ![c] = Exc("OSError", "Missing GOOGLE_API_KEY")]
            /\ UNCHANGED <<attempt, last_error, nCalls>>
       ELSE /\ pc' = [pc EXCEPT ![c] = "calling"]
            /\ attempt' = [attempt EXCEPT ![c] = 1]
            /\ last_error' = [last_error EXCEPT ![c] = NoError]
            /\ nCalls' = [nCalls EXCEPT ![c] = @ + 1]
            /\ UNCHANGED raised
    /\ UNCHANGED <<API_KEY, active, elapsed, measured, slept, returned, trace, cancel>>

\* the loop, were it to give up as soon as the caller has asked to cancel
Continue_CancelAware(c, err) ==
    IF HasNext(attempt[c]) /\ ~cancel[c].requested
    THEN /\ pc' = [pc EXCEPT ![c] = "calling"]
         /\ attempt' = NextAttempt(attempt, c)
         /\ nCalls' = [nCalls EXCEPT ![c] = @ + 1]
         /\ UNCHANGED returned
    ELSE /\ pc' = [pc EXCEPT ![c] = "returned"]
         /\ returned' = [returned EXCEPT ![c] = FailureOutcome(err)]
         /\ UNCHANGED <<attempt, nCalls>>

\* the loop after an attempt that did not return: the next attempt, or lines 103-104
Continue(c, err) ==
    IF HasNext(attempt[c])
    THEN /\ pc' = [pc EXCEPT ![c] = "calling"]
         /\ attempt' = NextAttempt(attempt, c)
         /\ nCalls' = [nCalls EXCEPT ![c] = @ + 1]
         /\ UNCHANGED returned
    ELSE /\ pc' = [pc EXCEPT ![c] = "returned"]
         /\ returned' = [returned EXCEPT ![c] = FailureOutcome(err)]
         /\ UNCHANGED <<attempt, nCalls>>

\* lines 94-101: an exception e leaves the try block of attempt[c]
Except(c, e) ==
    LET clause == ExceptClause(e)
        err == RecordError(last_error[c], e)
    IN  CASE clause = "schema" ->
               /\ last_error' = [last_error EXCEPT ![c] = err]
               /\ Continue(c, err)
               /\ UNCHANGED <<slept, raised>>
          [] clause = "api" ->
               /\ last_error' = [last_error EXCEPT ![c] = err]
               /\ IF SleepsAfter(attempt[c])
                  THEN /\ pc' = [pc EXCEPT ![c] = "sleeping"]
                       /\ slept' = [slept EXCEPT ![c] = Append(@, Backoff(attempt[c]))]
                       /\ UNCHANGED <<attempt, nCalls, returned>>
                  ELSE /\ Continue(c, err)
                       /\ UNCHANGED slept
               /\ UNCHANGED raised
          [] OTHER ->
               /\ pc' = [pc EXCEPT ![c] = "raised"]
               /\ raised' = [raised EXCEPT ![c] = e]
               /\ UNCHANGED <<last_error, attempt, nCalls, returned, slept>>

\* generate_content returns a response after elapsed[c] seconds: lines 82-101;
\* the clock is restarted for the attempt that may follow (line 71)
CallReturns(c, text) ==
    /\ pc[c] = "calling"
    /\ elapsed[c] <= LatencyBound
    /\ LET out == AttemptBody(text, measured[c]) IN
       /\ trace' = [trace EXCEPT ![c] = Append(@,
              [kind |-> "text", text |-> text, exc |-> NoError,
               latency |-> IF out.status = "ok" THEN elapsed[c] ELSE 0])]
       /\ IF out.status = "ok"
          THEN /\ pc' = [pc EXCEPT ![c] = "returned"]
               /\ returned' = [returned EXCEPT ![c] = out.value]
               /\ UNCHANGED <<attempt, last_error, slept, raised, nCalls>>
          ELSE Except(c, out.exc)
    /\ elapsed' = [elapsed EXCEPT ![c] = 0]
    /\ measured' = [measured EXCEPT ![c] = StartClock(@)]
    /\ UNCHANGED <<API_KEY, active, cancel>>

\* generate_content raises e: lines 97-101
CallRaises(c, e) ==
    /\ pc[c] = "calling"
    /\ trace' = [trace EXCEPT ![c] = Append(@,
           [kind |-> "raise", text |-> NoneText, exc |-> e, latency |-> 0])]
    /\ Except(c, e)
    /\ elapsed' = [elapsed EXCEPT ![c] = 0]
    /\ measured' = [measured EXCEPT ![c] = StartClock(@)]
    /\ UNCHANGED <<API_KEY, active, cancel>>

\* a second passes while generate_content has not come back; the call is
\* made without a timeout
Tick(c) ==
    /\ pc[c] = "calling"
    /\ elapsed[c] < WaitBound
    /\ elapsed' = [elapsed EXCEPT ![c] = @ + 1]
    /\ measured' = [measured EXCEPT ![c] = @ + 1]
    /\ UNCHANGED <<API_KEY, active, pc, attempt, last_error, slept, returned,
                   raised, nCalls, trace, cancel>>

\* time.sleep comes back: the loop goes on
WakeUp(c) ==
    /\ pc[c] = "sleeping"
    /\ Continue(c, last_error[c])
    /\ UNCHANGED <<API_KEY, active, last_error, elapsed, measured, slept, raised,
                   trace, cancel>>

\* the caller of c asks for cancellation; classify_ticket has no parameter
\* or check that could see it
CallerCancel(c) ==
    /\ pc[c] \in {"calling", "sleeping"}
    /\ ~cancel[c].requested
    /\ cancel' = [cancel EXCEPT ![c] = [requested |-> TRUE]]
    /\ UNCHANGED <<API_KEY, active, pc, attempt, last_error, elapsed, measured,
                   slept, returned, raised, nCalls, trace>>

Next ==
    \E c \in CallIds :
        \/ Start(c)
        \/ \E text \in Texts : CallReturns(c, text)
        \/ \E e \in UpstreamErrors : CallRaises(c, e)
        \/ Tick(c)
        \/ WakeUp(c)
        \/ CallerCancel(c)

Spec == Init /\ [][Next]_vars

SpecConc == InitConc /\ [][Next]_vars

(***************************************************************************)
(* Vocabulary of the properties.                                           *)
(***************************************************************************)
\* the dict of line 104, and nothing else, has exactly these keys
IsFailureOutcome(d) == DOMAIN d = {"error", "needs_human"}

Returned(c) == pc[c] = "returned"

Succeeded(c) == Returned(c) /\ ~IsFailureOutcome(returned[c])

Failed(c) == Returned(c) /\ IsFailureOutcome(returned[c])

\* the number a confidence stands for, in tenths
AsTenths(v) == IF v.t = "str" THEN NumericStrings[v.s] ELSE Tenths(v)

\* the payload the model sent to the attempt that succeeded
LastPayload(c) == trace[c][Len(trace[c])].text.value.d

\* what an attempt of the trace ended in
EntryResult(entry) ==
    IF entry.kind = "raise" THEN Raise(entry.exc)
    ELSE AttemptBody(entry.text, entry.latency)

IsTransportFailure(entry) == entry.kind = "raise"

AllTransport(c) ==
    /\ trace[c] # <<>>
    /\ \A i \in 1..Len(trace[c]) : IsTransportFailure(trace[c][i])

\* C1: a result returned on the success path has needs_human == true
\* whenever its urgency is critical or its confidence is below 0.7,
\* whatever needs_human the model's payload carried.
C1_EscalationInvariant ==
    \A c \in CallIds :
        Succeeded(c) =>
            ((\/ returned[c]["urgency"] = StrV("critical")
              \/ AsTenths(returned[c]["confidence"]) < 7)
             => returned[c]["needs_human"] = BoolV(TRUE))

\* a low-confidence, non-critical payload with needs_human = false came back
\* as a result with needs_human = true
C1_Witness ==
    \E c \in CallIds :
        /\ Succeeded(c)
        /\ LastPayload(c)["needs_human"] = BoolV(FALSE)
        /\ LastPayload(c)["urgency"] = StrV("low")
        /\ LastPayload(c)["confidence"] = FloatV(5)
        /\ returned[c]["needs_human"] = BoolV(TRUE)

\* C2: a call makes at most MAX_RETRIES upstream attempts; when every
\* attempt ends in a transport failure it makes exactly MAX_RETRIES and
\* returns a FailureOutcome with needs_human == true.
C2_RetryBound ==
    \A c \in CallIds :
        /\ nCalls[c] <= MAX_RETRIES
        /\ (Returned(c) /\ AllTransport(c)) =>
               /\ nCalls[c] = MAX_RETRIES
               /\ Len(trace[c]) = MAX_RETRIES
               /\ IsFailureOutcome(returned[c])
               /\ returned[c]["needs_human"] = BoolV(TRUE)

C2_Witness ==
    \E c \in CallIds :
        /\ Returned(c)
        /\ AllTransport(c)
        /\ nCalls[c] = MAX_RETRIES
        /\ IsFailureOutcome(returned[c])

\* C3: when all MAX_RETRIES attempts fail, in any mix of kinds, the
\* FailureOutcome carries the error of the last attempt and has
\* needs_human == true; nothing but a success is returned without
\* needs_human == true.
C3_LastErrorReturned ==
    \A c \in CallIds :
        Failed(c) =>
            /\ Len(trace[c]) = MAX_RETRIES
            /\ \A i \in 1..MAX_RETRIES : EntryResult(trace[c][i]).status = "raise"
            /\ returned[c]["error"] =
                   StrV(Str(EntryResult(trace[c][MAX_RETRIES]).exc))
            /\ returned[c]["needs_human"] = BoolV(TRUE)

\* three failures of three kinds with three different errors
C3_Witness ==
    \E c \in CallIds :
        /\ Failed(c)
        /\ IsTransportFailure(trace[c][1])
        /\ EntryResult(trace[c][2]).exc.type = "JSONDecodeError"
        /\ EntryResult(trace[c][3]).exc.type = "ValidationError"
        /\ returned[c]["error"] # StrV(Str(EntryResult(trace[c][1]).exc))
        /\ returned[c]["error"] # StrV(Str(EntryResult(trace[c][2]).exc))

\* C4: with a credential configured no error of an attempt leaves
\* classify_ticket: the call never raises, and what it returns is a
\* classification result or a FailureOutcome.
C4_NoErrorPropagates ==
    \A c \in CallIds :
        API_KEY = StrV("key") =>
            /\ pc[c] # "raised"
            /\ raised[c] = NoError
            /\ Returned(c) =>
                   \/ IsFailureOutcome(returned[c])
                   \/ Fields \cup {"latency_ms"} \subseteq DOMAIN returned[c]

\* a call came back after an upstream error, a decode error, a schema error
\* or an error raised by the escalation rule
C4_Witness ==
    \E c \in CallIds :
        /\ Returned(c)
        /\ Len(trace[c]) = MAX_RETRIES
        /\ IsTransportFailure(trace[c][1])
        /\ trace[c][2].kind = "text"
        /\ trace[c][2].text.kind = "json"
        /\ Validate(trace[c][2].text.value).status = "ok"
        /\ EntryResult(trace[c][2]).status = "raise"
        /\ EntryResult(trace[c][3]).exc.type \in {"JSONDecodeError", "ValidationError"}

\* a payload as the specification of the schema wants it: no conversion
StrictlyValid(d) ==
    /\ Fields \subseteq DOMAIN d
    /\ \A f \in {"product_area", "language", "suggested_reply"} : d[f].t = "str"
    /\ d["urgency"].t = "str" /\ d["urgency"].s \in Urgency
    /\ d["intent"].t = "str" /\ d["intent"].s \in Intent
    /\ d["confidence"].t \in {"float", "int"}
    /\ Tenths(d["confidence"]) \in 0..10
    /\ d["needs_human"].t = "bool"

\* C5: the schema validation accepts a decoded payload exactly when all
\* seven fields are present with their primitive type, urgency and intent
\* are in their closed sets and confidence lies in [0.0, 1.0]; nothing is
\* converted or defaulted.
C5_ValidatorAcceptsIff ==
    \A c \in CallIds : \A i \in 1..Len(trace[c]) :
        (trace[c][i].kind = "text" /\ trace[c][i].text.kind = "json"
            /\ trace[c][i].text.value.py = "dict")
        => (Validate(trace[c][i].text.value).status = "ok"
               <=> StrictlyValid(trace[c][i].text.value.d))

\* C6: every value classify_ticket returns conforms to the
\* TicketClassification schema and has 0 <= confidence <= 1.
C6_ReturnedConforms ==
    \A c \in CallIds :
        Returned(c) =>
            /\ Validate(PyDict(returned[c])).status = "ok"
            /\ AsTenths(returned[c]["confidence"]) \in 0..10

\* C7: an upstream call is ended once TIMEOUT_SECONDS have passed: no call
\* is in flight for longer.
C7_CallEndsAtTimeout ==
    \A c \in CallIds : pc[c] = "calling" => elapsed[c] <= TIMEOUT_SECONDS

\* GOOGLE_API_KEY is unset or empty
CredentialMissing == API_KEY \in {NullV, StrV("")}

\* C8: with the credential missing (unset or empty) classify_ticket raises
\* at once: no upstream attempt, no sleep, no retry, no returned value.
C8_MissingCredentialFatal ==
    CredentialMissing =>
        \A c \in CallIds :
            /\ nCalls[c] = 0
            /\ slept[c] = <<>>
            /\ trace[c] = <<>>
            /\ pc[c] \in {"idle", "raised"}
            /\ returned[c] = EmptyDict
            /\ pc[c] = "raised" => raised[c] = Exc("OSError", "Missing GOOGLE_API_KEY")

C8_Witness == API_KEY = NullV /\ pc[1] = "raised"

\* the call as it runs alone: attempt k of the loop on the k-th response
RECURSIVE RunFrom(_, _, _)
RunFrom(tr, k, sl) ==
    IF k > Len(tr)
    THEN [n |-> 0, slept |-> sl, returned |-> EmptyDict]  \* not run to its end
    ELSE
    LET out == EntryResult(tr[k]) IN
    IF out.status = "ok"
    THEN [n |-> k, slept |-> sl, returned |-> out.value]
    ELSE LET sl2 == IF ExceptClause(out.exc) = "api" /\ k < MAX_RETRIES
                    THEN Append(sl, Pow2(k)) ELSE sl
         IN  IF k < MAX_RETRIES
             THEN RunFrom(tr, k + 1, sl2)
             ELSE [n |-> k, slept |-> sl2, returned |-> FailureOutcome(out.exc)]

RunAlone(tr) == RunFrom(tr, 1, <<>>)

\* C9: under every interleaving of concurrent calls, the attempt count,
\* the backoff delays and the outcome of each call are those the call has
\* when it runs alone on the responses to its own attempts.
C9_CallsIndependent ==
    \A c \in active :
        Returned(c) =>
            /\ nCalls[c] = RunAlone(trace[c]).n
            /\ slept[c] = RunAlone(trace[c]).slept
            /\ returned[c] = RunAlone(trace[c]).returned

\* one call has ended in failure after a backoff while another, which got
\* other responses, is in the middle of its own loop
C9_Witness ==
    /\ active = CallIds
    /\ Failed(1) /\ slept[1] # <<>>
    /\ pc[2] = "calling" /\ nCalls[2] = 2 /\ slept[2] = <<>>

EndsAttempt(c) == Len(trace'[c]) = Len(trace[c]) + 1

\* C11: after a transport failure on attempt k < MAX_RETRIES the call
\* sleeps 2^k and then starts attempt k + 1; after a transport failure on
\* the last attempt it returns the FailureOutcome without sleeping.
C11_BackoffAfterTransport ==
    [][\A c \in CallIds :
         /\ (EndsAttempt(c) /\ IsTransportFailure(trace'[c][Len(trace'[c])])) =>
                LET k == Len(trace'[c]) IN
                IF k < MAX_RETRIES
                THEN /\ pc'[c] = "sleeping"
                     /\ slept'[c] = Append(slept[c], Pow2(k))
                     /\ nCalls'[c] = k
                ELSE /\ pc'[c] = "returned"
                     /\ IsFailureOutcome(returned'[c])
                     /\ slept'[c] = slept[c]
         /\ (pc[c] = "sleeping" /\ pc'[c] # "sleeping") =>
                /\ pc'[c] = "calling"
                /\ nCalls'[c] = Len(trace[c]) + 1
                /\ slept'[c] = slept[c]
    ]_vars

\* three transport failures: slept 2 after the first, 4 after the second,
\* nothing after the third
C11_Witness ==
    \E c \in CallIds :
        /\ Failed(c)
        /\ AllTransport(c)
        /\ Len(trace[c]) = MAX_RETRIES
        /\ slept[c] = <<2, 4>>

\* the model's output is malformed: the body does not decode, the decoded
\* value is no mapping, or the mapping fails the validation
MalformedOutput(entry) ==
    /\ entry.kind = "text"
    /\ \/ entry.text.kind = "garbage"
       \/ /\ entry.text.kind = "json"
          /\ \/ entry.text.value.py # "dict"
             \/ FieldErrors(entry.text.value.d) # <<>>

\* C12: an attempt that fails on malformed output is followed by the next
\* attempt (or the final return) with no backoff sleep.
C12_NoBackoffAfterMalformed ==
    [][\A c \in CallIds :
         (EndsAttempt(c) /\ MalformedOutput(trace'[c][Len(trace'[c])])) =>
             /\ slept'[c] = slept[c]
             /\ pc'[c] \in {"calling", "returned"}
    ]_vars

\* the attempt got a payload that passes the validation of line 85
PassesValidation(entry) ==
    /\ entry.kind = "text"
    /\ entry.text.kind = "json"
    /\ Validate(entry.text.value).status = "ok"

\* C13: the call returns at the first attempt whose payload passes the
\* validation: that attempt is the last one, no call or sleep follows it,
\* and the result is that payload with the rule applied and a latency_ms
\* that is not negative.
C13_SuccessTerminal ==
    \A c \in CallIds : \A i \in 1..Len(trace[c]) :
        PassesValidation(trace[c][i]) =>
            /\ i = Len(trace[c])
            /\ nCalls[c] = i
            /\ Succeeded(c)
            /\ Len(slept[c]) < i
            /\ \A k \in Fields \ {"needs_human"} :
                   returned[c][k] = trace[c][i].text.value.d[k]
            /\ returned[c]["latency_ms"].n >= 0
            /\ AsTenths(returned[c]["confidence"]) < 7
                   => returned[c]["needs_human"] = BoolV(TRUE)

\* C14: when the validated payload has an urgency other than critical and
\* a confidence of 0.7 or more, the needs_human of the result is the
\* payload's own needs_human.
C14_NeedsHumanPassedThrough ==
    \A c \in CallIds :
        (/\ Succeeded(c)
         /\ LastPayload(c)["urgency"] # StrV("critical")
         /\ AsTenths(LastPayload(c)["confidence"]) >= 7)
        => returned[c]["needs_human"] = LastPayload(c)["needs_human"]

\* a payload with confidence exactly 0.7 and needs_human = false came back
\* with needs_human = false
C14_Witness ==
    \E c \in CallIds :
        /\ Succeeded(c)
        /\ LastPayload(c)["urgency"] = StrV("low")
        /\ LastPayload(c)["confidence"] = FloatV(7)
        /\ LastPayload(c)["needs_human"] = BoolV(FALSE)
        /\ returned[c]["needs_human"] = BoolV(FALSE)

\* C15: the escalation rule is idempotent: applied to a result it has
\* produced, it gives that result again.
C15_RuleIdempotent ==
    \A c \in CallIds :
        Succeeded(c) => EnforceRule(returned[c]) = Ok(returned[c])

\* the rule changed the payload (critical, needs_human = false), and
\* changes nothing the second time
C15_Witness ==
    \E c \in CallIds :
        /\ Succeeded(c)
        /\ LastPayload(c)["urgency"] = StrV("critical")
        /\ LastPayload(c)["needs_human"] = BoolV(FALSE)
        /\ returned[c]["needs_human"] = BoolV(TRUE)
        /\ EnforceRule(returned[c]).value["needs_human"] = BoolV(TRUE)

\* C16: latency_ms of a success result is a non-negative integer, the
\* duration in milliseconds of the upstream call of the successful attempt
\* alone, and stands in place of any latency_ms of the payload.
C16_LatencyOfLastCall ==
    \A c \in CallIds :
        Succeeded(c) =>
            /\ returned[c]["latency_ms"] = IntV(1000 * trace[c][Len(trace[c])].latency)
            /\ returned[c]["latency_ms"].n >= 0

\* a second attempt after a backoff succeeded after one second on a payload
\* that carried latency_ms = 7
C16_Witness ==
    \E c \in CallIds :
        /\ Succeeded(c)
        /\ Len(trace[c]) = 2
        /\ slept[c] = <<2>>
        /\ "latency_ms" \in DOMAIN LastPayload(c)
        /\ LastPayload(c)["latency_ms"] = IntV(7)
        /\ returned[c]["latency_ms"] = IntV(1000)

\* C17: on the success path urgency, intent, product_area, language,
\* confidence and suggested_reply are those of the validated payload; only
\* needs_human may be changed and only latency_ms added.
C17_OnlyNeedsHumanAndLatency ==
    \A c \in CallIds :
        Succeeded(c) =>
            /\ DOMAIN returned[c] = DOMAIN LastPayload(c) \cup {"latency_ms"}
            /\ \A k \in DOMAIN LastPayload(c) \ {"needs_human", "latency_ms"} :
                   returned[c][k] = LastPayload(c)[k]

\* the rule fired on a low-urgency payload with confidence -0.1: urgency
\* and confidence came back as sent, needs_human alone was changed
C17_Witness ==
    \E c \in CallIds :
        /\ Succeeded(c)
        /\ LastPayload(c)["confidence"] = FloatV(-1)
        /\ LastPayload(c)["urgency"] = StrV("low")
        /\ LastPayload(c)["needs_human"] = BoolV(FALSE)
        /\ returned[c]["needs_human"] = BoolV(TRUE)
        /\ returned[c]["urgency"] = StrV("low")
        /\ returned[c]["confidence"] = FloatV(-1)

\* the last attempt of c succeeded
LastAttemptOk(c) ==
    /\ trace[c] # <<>>
    /\ EntryResult(trace[c][Len(trace[c])]).status = "ok"

\* every one of the MAX_RETRIES attempts of c failed
AllAttemptsFailed(c) ==
    /\ Len(trace[c]) = MAX_RETRIES
    /\ \A i \in 1..MAX_RETRIES : EntryResult(trace[c][i]).status = "raise"

\* C18: a returned value has an error field exactly when all MAX_RETRIES
\* attempts failed, and a success result has exactly the seven schema
\* fields and latency_ms, whatever keys the payload carried.
C18_OutcomesDistinguishable ==
    \A c \in CallIds :
        Returned(c) =>
            /\ "error" \in DOMAIN returned[c] <=> AllAttemptsFailed(c)
            /\ LastAttemptOk(c) => DOMAIN returned[c] = Fields \cup {"latency_ms"}

RECURSIVE Sum(_)
Sum(seq) == IF seq = <<>> THEN 0 ELSE Head(seq) + Sum(Tail(seq))

\* 2^1 + ... + 2^(MAX_RETRIES - 1)
MaxTotalBackoff == Sum([k \in 1..(MAX_RETRIES - 1) |-> Pow2(k)])

\* no sleep before the first attempt or after a successful one, and the
\* total never above 2^1 + ... + 2^(MAX_RETRIES - 1)
SleepsOnlyBetweenAttempts(c) ==
    /\ trace[c] = <<>> => slept[c] = <<>>
    /\ LastAttemptOk(c) => (Returned(c) /\ Len(slept[c]) < Len(trace[c]))
    /\ Sum(slept[c]) <= MaxTotalBackoff

\* attempt k of c ended in the except Exception clause
BackedOff(c, k) ==
    /\ k <= Len(trace[c])
    /\ EntryResult(trace[c][k]).status = "raise"
    /\ ExceptClause(EntryResult(trace[c][k]).exc) = "api"

\* C19 as claimed: no sleep before the first attempt or after a success,
\* the total backoff is at most 6, and it is 6 exactly when every attempt
\* is a transport failure.
C19_TotalBackoffIffAllTransport ==
    \A c \in CallIds :
        /\ SleepsOnlyBetweenAttempts(c)
        /\ Returned(c) => (Sum(slept[c]) = MaxTotalBackoff <=> AllTransport(c))

\* C19 as amended: the total is 6 whenever every attempt is a transport
\* failure, and exactly when each attempt before the last ended in the
\* except Exception clause, whatever the last attempt did.
C19_TotalBackoff ==
    \A c \in CallIds :
        /\ SleepsOnlyBetweenAttempts(c)
        /\ Returned(c) =>
               /\ AllTransport(c) => Sum(slept[c]) = MaxTotalBackoff
               /\ Sum(slept[c]) = MaxTotalBackoff
                      <=> \A k \in 1..(MAX_RETRIES - 1) : BackedOff(c, k)

\* two transport failures, 2 + 4 slept, and a third attempt that succeeded
C19_Witness ==
    \E c \in CallIds :
        /\ Succeeded(c)
        /\ Len(trace[c]) = MAX_RETRIES
        /\ IsTransportFailure(trace[c][1])
        /\ IsTransportFailure(trace[c][2])
        /\ Sum(slept[c]) = MaxTotalBackoff

====
